---- MODULE Spec2Model ----
(***************************************************************************)
(* A model of the dataset preparation scripts                              *)
(*   fix_masks_to_binary.py, gather_images_and_masks.py,                   *)
(*   prune_unpaired_pairs.py and resize_dataset_256.py.                    *)
(*                                                                         *)
(* Three specifications share the variables below:                         *)
(*   SpecBin      binarize_array applied once and twice to a buffer        *)
(*   SpecResize   resize_keep_aspect / resize_stretch on one image         *)
(*   SpecStages   one run of a stage (merge, prune, binarize, resize) on   *)
(*                a small file tree, the merge optionally followed by the  *)
(*                prune of its output                                      *)
(***************************************************************************)
EXTENDS Integers, Sequences, FiniteSets, TLC

VARIABLES
    \* ---- binarize_array
    arr,        \* the input buffer: a sequence of rows of uint8 samples
    out1,       \* binarize_array(arr), or NoBuffer before the call
    out2,       \* binarize_array(out1), or NoBuffer before the call
    \* ---- resize
    im,         \* the source image: [mode, size |-> <<w, h>>]
    rargs,      \* [size, is_mask, keep_aspect]: the arguments of the resize call
    result,     \* the image a resize call returned: [mode, size, px], or NoResult
    \* ---- a stage run on a file tree
    stage,      \* the script that runs: "merge", "prune", "binarize", "resize"
    args,       \* its command line
    fs,         \* the files: path -> content
    dirs,       \* the directories that exist
    fs0,        \* the files when the stage started
    dirs0,      \* the directories when the stage started
    faulty,     \* the paths on which a read, a copy or an unlink fails
    ext_order,  \* the order in which this process iterates the set IMG_EXTS
    pc,         \* where the stage is
    queue,      \* the splits still to be merged
    cur,        \* the split being merged
    todo,       \* the files the running loop has still to visit
    later,      \* the files the loop visits after those of todo
    listed,     \* every file a loop of the stage was given
    handled,    \* the files a loop body was entered for
    touched,    \* the paths read, written, copied or unlinked
    failed,     \* the paths on which an operation raised
    diag,       \* the diagnostics printed
    counts,     \* the counters of the stage
    report,     \* the candidate lists the prune pass printed
    resolved,   \* merge: image -> [mask_dir, mask]: the mask chosen for it
                \* in the masks folder (NoPath for none)
    ran         \* the stages that ran before this one

None == "None"
NoBuffer == <<>>
NoImage == [mode |-> None, size |-> <<0, 0>>]
NoResult == [mode |-> None, size |-> <<0, 0>>, px |-> <<>>]

binVars == <<arr, out1, out2>>
rszVars == <<im, rargs, result>>
stageVars == <<stage, args, fs, dirs, fs0, dirs0, faulty, ext_order, pc, queue,
               cur, todo, later, listed, handled, touched, failed, diag,
               counts, report, resolved, ran>>
vars == <<arr, out1, out2, im, rargs, result, stage, args, fs, dirs, fs0,
          dirs0, faulty, ext_order, pc, queue, cur, todo, later, listed,
          handled, touched, failed, diag, counts, report, resolved, ran>>

-----------------------------------------------------------------------------
(* Bounds of the model.                                                    *)

MaxRows == 2
MaxCols == 2
MaxSrc == 6         \* source images are up to MaxSrc x MaxSrc
MaxTarget == 3      \* targets are up to MaxTarget x MaxTarget
MaxFiles == 3       \* a file tree starts with up to MaxFiles files
MaxFaulty == 1      \* of which up to MaxFaulty fail their I/O

\* The uint8 samples buffers are built from: background, a 0/1 label, a
\* grey level and the full level.
Samples == {0, 1, 128, 255}

-----------------------------------------------------------------------------
(* Names and paths.  A name is a sequence of tokens (a token stands for a  *)
(* run of characters), a directory is the sequence of the names leading to *)
(* it, and a file is a directory, a stem and an extension, as pathlib      *)
(* splits it.                                                              *)

MASK_SUFFIX == <<"_mask">>

\* IMG_EXTS of prune_unpaired_pairs.py, fix_masks_to_binary.py and
\* resize_dataset_256.py
IMG_EXTS == {".jpg", ".jpeg", ".png", ".bmp", ".tif", ".tiff", ".webp"}
\* IMG_EXTS of gather_images_and_masks.py
IMG_EXTS_gather == {".jpg", ".jpeg", ".png", ".bmp", ".tif", ".tiff"}

\* str.lower() on a token, an extension and a name
LowerTok(t) ==
    CASE t = "A" -> "a"
      [] t = "C" -> "c"
      [] t = "Images_" -> "images_"
      [] OTHER -> t
LowerExt(e) ==
    CASE e = ".PNG" -> ".png"
      [] OTHER -> e
lower(name) == [i \in 1..Len(name) |-> LowerTok(name[i])]

\* str.startswith, str.endswith, `sub in str`
startswith(name, prefix) ==
    /\ Len(prefix) <= Len(name)
    /\ SubSeq(name, 1, Len(prefix)) = prefix
endswith(name, suffix) ==
    /\ Len(suffix) <= Len(name)
    /\ SubSeq(name, Len(name) - Len(suffix) + 1, Len(name)) = suffix
contains(name, part) ==
    \E i \in 1..(Len(name) - Len(part) + 1) :
        SubSeq(name, i, i + Len(part) - 1) = part

\* stem[: -len(MASK_SUFFIX)]
strip_suffix(stem) == SubSeq(stem, 1, Len(stem) - Len(MASK_SUFFIX))

File(parent, stem, ext) == [parent |-> parent, stem |-> stem, ext |-> ext]
NoPath == File(<<>>, <<>>, "")

\* p.name.startswith(".")
hidden(p) == startswith(p.stem, <<".">>)

\* d is dir or an ancestor of it / a directory below or equal to d
IsPrefix(d, dir) == Len(d) <= Len(dir) /\ SubSeq(dir, 1, Len(d)) = d
\* dir and every ancestor of it: what mkdir(parents=True, exist_ok=True) makes
WithParents(dir) == {SubSeq(dir, 1, n) : n \in 1..Len(dir)}

\* folder.rglob("*") narrowed to files; dir.iterdir() narrowed to files
rglob_files(f, d) == {p \in DOMAIN f : IsPrefix(d, p.parent)}
iterdir_files(f, d) == {p \in DOMAIN f : p.parent = d}

\* a file's bytes: the file they were first read from and what was done to
\* them since
Orig(p) == [origin |-> p, ops |-> <<>>]
Written(f, p, content) ==
    [q \in DOMAIN f \cup {p} |-> IF q = p THEN content ELSE f[q]]
Unlinked(f, p) == [q \in DOMAIN f \ {p} |-> f[q]]

\* the directories of the stages
\* --out of the merge, with its img and mask folders: the directories the
\* later stages are pointed at
Out == << <<"out">> >>
ImgDir == Out \o << <<"img">> >>
MaskDir == Out \o << <<"mask">> >>
Sub == <<"s">>

NoStageArgs ==
    [dry_run |-> FALSE, hardlink |-> FALSE, out_png |-> FALSE,
     keep_aspect |-> FALSE, img_dir |-> FALSE, mask_dir |-> FALSE,
     out |-> FALSE]
NoCounts ==
    [deleted |-> 0, copied_imgs |-> 0, copied_masks |-> 0, count |-> 0,
     skipped |-> 0]
NoReport == [unpaired_images |-> {}, unpaired_masks |-> {},
             n_unpaired_images |-> 0, n_unpaired_masks |-> 0]
NoSplit == [tag |-> <<>>, images_dir |-> <<>>, masks_dir |-> <<>>,
            masks |-> {}, matched |-> {}]
ExtOrderAtoZ == <<".bmp", ".jpeg", ".jpg", ".png", ".tif", ".tiff">>

\* the logs and positions of a stage that has not started
StageFresh ==
    /\ pc = "start"
    /\ queue = <<>>
    /\ cur = NoSplit
    /\ todo = {}
    /\ later = {}
    /\ listed = {}
    /\ handled = {}
    /\ touched = {}
    /\ failed = {}
    /\ diag = {}
    /\ counts = NoCounts
    /\ report = NoReport
    /\ resolved = <<>>

\* no stage runs: the state of the file tree in the specifications of the
\* pure functions
StageIdle ==
    /\ stage = None
    /\ args = NoStageArgs
    /\ fs = <<>>
    /\ dirs = {}
    /\ fs0 = <<>>
    /\ dirs0 = {}
    /\ faulty = {}
    /\ ext_order = ExtOrderAtoZ
    /\ ran = <<>>
    /\ StageFresh

-----------------------------------------------------------------------------
(* fix_masks_to_binary.py : binarize_array                                  *)

Full == 255
Uint8 == 256

\* np.unique(arr): the distinct sample values of the buffer
unique(a) == {a[r][c] : r \in 1..Len(a), c \in 1..Len(a[1])}

\* (arr * 255).astype(np.uint8)
Scale255(a) ==
    [r \in 1..Len(a) |-> [c \in 1..Len(a[r]) |-> (a[r][c] * Full) % Uint8]]

\* np.where(arr > 0, 255, 0).astype(np.uint8)
NonzeroTo255(a) ==
    [r \in 1..Len(a) |-> [c \in 1..Len(a[r]) |->
        IF a[r][c] > 0 THEN Full ELSE 0]]

\* np.where(arr > thresh, 255, 0): the commented-out strict threshold
thresh == 127
AboveThresh(a) ==
    [r \in 1..Len(a) |-> [c \in 1..Len(a[r]) |->
        IF a[r][c] > thresh THEN Full ELSE 0]]

\* np.where(arr > 0, 1, 0): a collapse to labels instead of levels
NonzeroTo1(a) ==
    [r \in 1..Len(a) |-> [c \in 1..Len(a[r]) |->
        IF a[r][c] > 0 THEN 1 ELSE 0]]

binarize_array_thresh(a) ==
    LET u == unique(a) IN
    IF u \subseteq {0, Full} THEN a
    ELSE IF u \subseteq {0, 1} THEN Scale255(a)
    ELSE AboveThresh(a)

binarize_array_labels(a) ==
    LET u == unique(a) IN
    IF u \subseteq {0, Full} THEN a
    ELSE IF u \subseteq {0, 1} THEN Scale255(a)
    ELSE NonzeroTo1(a)

binarize_array(a) ==
    LET u == unique(a) IN
    IF u \subseteq {0, Full} THEN a
    ELSE IF u \subseteq {0, 1} THEN Scale255(a)
    ELSE NonzeroTo255(a)

Buffers ==
    UNION {[1..r -> [1..c -> Samples]] : r \in 1..MaxRows, c \in 1..MaxCols}

NoArgs == [size |-> <<0, 0>>, is_mask |-> FALSE, keep_aspect |-> FALSE]

InitBin ==
    /\ arr \in Buffers
    /\ out1 = NoBuffer
    /\ out2 = NoBuffer
    /\ im = NoImage
    /\ rargs = NoArgs
    /\ result = NoResult
    /\ StageIdle

\* bin255 = binarize_array(arr)
Binarize ==
    /\ out1 = NoBuffer
    /\ out1' = binarize_array(arr)
    /\ UNCHANGED <<arr, out2>>
    /\ UNCHANGED rszVars
    /\ UNCHANGED stageVars

\* a second pass over an already binarized buffer
Rebinarize ==
    /\ out1 # NoBuffer
    /\ out2 = NoBuffer
    /\ out2' = binarize_array(out1)
    /\ UNCHANGED <<arr, out1>>
    /\ UNCHANGED rszVars
    /\ UNCHANGED stageVars

NextBin == Binarize \/ Rebinarize

SpecBin == InitBin /\ [][NextBin]_vars

Shape(a) == <<Len(a), Len(a[1])>>

C2_Idempotent ==
    out2 # NoBuffer => out2 = out1

\* a buffer with the distinct values {1,255} went through both passes and
\* the first pass changed it
C2_Witness ==
    /\ out2 # NoBuffer
    /\ unique(arr) = {1, 255}
    /\ out1 # arr

-----------------------------------------------------------------------------
(* resize_dataset_256.py : resize_stretch, resize_keep_aspect               *)

\* A pixel is the tuple of its channel values.  The content of the source
\* is not looked at by the resize code; every source pixel is Ink, so that
\* the pasted region can be read off the result.
Channels(mode) == IF mode = "L" THEN 1 ELSE 3
Ink(mode) == [c \in 1..Channels(mode) |-> 1]

Grid(size) == (0..(size[1] - 1)) \X (0..(size[2] - 1))

\* An image holds its pixels by rows: px[y + 1][x + 1] is the pixel at (x, y).

\* Image.new(mode, size, color): an integer color is written <<c>> (every
\* channel gets c), a tuple color holds the channel values
ImageNew(mode, size, color) ==
    LET pixel == IF Len(color) = 1
                 THEN [c \in 1..Channels(mode) |-> color[1]]
                 ELSE color
    IN  [mode |-> mode, size |-> size,
         px |-> [y \in 1..size[2] |-> [x \in 1..size[1] |-> pixel]]]

\* im.resize(size, resample): an image of the asked size holding resampled
\* source content; NEAREST and BILINEAR differ in sample values only
ImResize(i, size) ==
    [mode |-> i.mode, size |-> size,
     px |-> [y \in 1..size[2] |-> [x \in 1..size[1] |-> Ink(i.mode)]]]

\* canvas.paste(piece, (left, top)): the pixels of piece replace those of
\* the canvas at the offset, clipped to the canvas
Paste(canvas, piece, left, top) ==
    [canvas EXCEPT !.px =
        [y \in 1..canvas.size[2] |-> [x \in 1..canvas.size[1] |->
            IF /\ 1 <= x - left /\ x - left <= piece.size[1]
               /\ 1 <= y - top /\ y - top <= piece.size[2]
            THEN piece.px[y - top][x - left]
            ELSE canvas.px[y][x]]]]

Max(a, b) == IF a >= b THEN a ELSE b

\* int(p/q) for p/q >= 0: truncation, the rounding a cast alone would give
py_trunc(p, q) == p \div q

\* int(round(p/q)) for p/q >= 0: Python rounds to the nearest integer and a
\* tie to the even neighbour
py_round(p, q) ==
    LET fl == p \div q
        twice == 2 * (p - fl * q)
    IN  IF twice < q THEN fl
        ELSE IF twice > q THEN fl + 1
        ELSE IF fl % 2 = 0 THEN fl ELSE fl + 1

\* scale = min(target_w / w, target_h / h), as the fraction num/den
ScaleOf(size, target) ==
    IF target[1] * size[2] <= target[2] * size[1]
    THEN [num |-> target[1], den |-> size[1]]
    ELSE [num |-> target[2], den |-> size[2]]

resize_stretch(i, size, is_mask) == ImResize(i, size)

resize_keep_aspect(i, size, is_mask) ==
    LET target_w == size[1]
        target_h == size[2]
        w == i.size[1]
        h == i.size[2]
        scale == ScaleOf(i.size, size)
        new_w == Max(1, py_round(w * scale.num, scale.den))
        new_h == Max(1, py_round(h * scale.num, scale.den))
        resized == ImResize(i, <<new_w, new_h>>)
        mode == resized.mode
        fill == IF is_mask THEN <<0>>
                ELSE IF mode \in {"L", "I;16"} THEN <<0>> ELSE <<0, 0, 0>>
        canvas == ImageNew(mode, <<target_w, target_h>>, fill)
        left == (target_w - new_w) \div 2
        top == (target_h - new_h) \div 2
    IN  Paste(canvas, resized, left, top)

\* the spec's scenario: 512x384 resized to 256x256
ScenarioSize == <<512, 384>>
ScenarioTarget == <<256, 256>>

SourceSizes == ((1..MaxSrc) \X (1..MaxSrc)) \cup {ScenarioSize}
TargetSizes(src) ==
    IF src = ScenarioSize THEN {ScenarioTarget}
    ELSE (1..MaxTarget) \X (1..MaxTarget)

InitResize ==
    /\ arr = NoBuffer
    /\ out1 = NoBuffer
    /\ out2 = NoBuffer
    /\ \E sz \in SourceSizes, mode \in {"L", "RGB"} :
          /\ im = [mode |-> mode, size |-> sz]
          /\ \E t \in TargetSizes(sz), m \in BOOLEAN :
                rargs = [size |-> t, is_mask |-> m, keep_aspect |-> FALSE]
    /\ result = NoResult
    /\ StageIdle

\* out_img = resize_keep_aspect(im, size, is_mask)
ResizeKeepAspect ==
    /\ result = NoResult
    /\ im # NoImage
    /\ result' = resize_keep_aspect(im, rargs.size, rargs.is_mask)
    /\ rargs' = [rargs EXCEPT !.keep_aspect = TRUE]
    /\ UNCHANGED im
    /\ UNCHANGED binVars
    /\ UNCHANGED stageVars

\* out_img = resize_stretch(im, size, is_mask)
ResizeStretch ==
    /\ result = NoResult
    /\ im # NoImage
    /\ result' = resize_stretch(im, rargs.size, rargs.is_mask)
    /\ UNCHANGED <<im, rargs>>
    /\ UNCHANGED binVars
    /\ UNCHANGED stageVars

NextResize == ResizeKeepAspect \/ ResizeStretch

SpecResize == InitResize /\ [][NextResize]_vars

\* the pixels of an image that are not background
PixelAt(i, p) == i.px[p[2] + 1][p[1] + 1]
Content(i) == {p \in Grid(i.size) : \E c \in DOMAIN PixelAt(i, p) : PixelAt(i, p)[c] # 0}
MinOf(S) == CHOOSE x \in S : \A y \in S : x <= y
MaxOf(S) == CHOOSE x \in S : \A y \in S : x >= y
Xs(R) == {p[1] : p \in R}
Ys(R) == {p[2] : p \in R}
RegionW(R) == MaxOf(Xs(R)) - MinOf(Xs(R)) + 1
RegionH(R) == MaxOf(Ys(R)) - MinOf(Ys(R)) + 1
IsBox(R) == R = (MinOf(Xs(R))..MaxOf(Xs(R))) \X (MinOf(Ys(R))..MaxOf(Ys(R)))
Abs(x) == IF x < 0 THEN -x ELSE x
\* n is an integer nearest to p/q
Nearest(n, p, q) == 2 * Abs(n * q - p) <= q
\* n is floor(a / 2) for an integer a >= 0
HalfFloor(n, a) == 2 * n <= a /\ a < 2 * n + 2

KeptAspect == result # NoResult /\ rargs.keep_aspect

\* what C8 says of a result whatever the content dimensions are: the canvas
\* is the target, the content is one box inside it, centred with floored
\* offsets, and everything else is 0
CanvasCentred ==
    LET R == Content(result)
        W == rargs.size[1]
        H == rargs.size[2]
    IN  /\ result.size = rargs.size
        /\ Len(result.px) = H
        /\ \A y \in 1..H : Len(result.px[y]) = W
        /\ R # {}
        /\ IsBox(R)
        /\ R \subseteq Grid(rargs.size)
        /\ HalfFloor(MinOf(Xs(R)), W - RegionW(R))
        /\ HalfFloor(MinOf(Ys(R)), H - RegionH(R))
        /\ \A p \in Grid(rargs.size) \ R :
               \A c \in DOMAIN PixelAt(result, p) : PixelAt(result, p)[c] = 0

\* C8 as stated: the content is round(w*scale) x round(h*scale).
C8_ContentIsRounded ==
    KeptAspect =>
        LET R == Content(result)
            scale == ScaleOf(im.size, rargs.size)
        IN  /\ CanvasCentred
            /\ Nearest(RegionW(R), im.size[1] * scale.num, scale.den)
            /\ Nearest(RegionH(R), im.size[2] * scale.num, scale.den)

\* C8 amended: the content is round(w*scale) x round(h*scale), each raised
\* to 1 when it rounds to 0; the rest of C8 as stated.
C8_ContentIsRoundedAtLeast1 ==
    KeptAspect =>
        LET R == Content(result)
            scale == ScaleOf(im.size, rargs.size)
            pw == im.size[1] * scale.num
            ph == im.size[2] * scale.num
        IN  /\ CanvasCentred
            /\ \/ Nearest(RegionW(R), pw, scale.den)
               \/ RegionW(R) = 1 /\ Nearest(0, pw, scale.den)
            /\ \/ Nearest(RegionH(R), ph, scale.den)
               \/ RegionH(R) = 1 /\ Nearest(0, ph, scale.den)

\* the scenario of C8 ran: 512x384 to 256x256 gave content 256x192 with 32
\* rows of padding above and below
C8_Witness ==
    /\ KeptAspect
    /\ im.size = <<512, 384>>
    /\ rargs.size = <<256, 256>>
    /\ RegionW(Content(result)) = 256
    /\ RegionH(Content(result)) = 192
    /\ MinOf(Ys(Content(result))) = 32
    /\ MaxOf(Ys(Content(result))) = 255 - 32

-----------------------------------------------------------------------------
(* The start of a stage run on a file tree.                                *)

\* the trees a stage may start on: one of the directory layouts, holding up
\* to MaxFiles files of a universe (and the subfolders they need); up to
\* MaxFaulty of the files fail their I/O
TreeInit(universe, layouts) ==
    \E files \in SUBSET universe, present \in layouts :
        /\ Cardinality(files) <= MaxFiles
        /\ \A p \in files : \E b \in present : IsPrefix(b, p.parent)
        /\ fs = [p \in files |-> Orig(p)]
        /\ dirs = UNION {WithParents(p.parent) : p \in files}
                  \cup UNION {WithParents(b) : b \in present}
        /\ fs0 = fs
        /\ dirs0 = dirs
        /\ \E bad \in SUBSET files :
              /\ Cardinality(bad) <= MaxFaulty
              /\ faulty = bad

PureIdle ==
    /\ arr = NoBuffer
    /\ out1 = NoBuffer
    /\ out2 = NoBuffer
    /\ im = NoImage
    /\ rargs = NoArgs
    /\ result = NoResult

pureVars == <<arr, out1, out2, im, rargs, result>>

-----------------------------------------------------------------------------
(* prune_unpaired_pairs.py                                                  *)

\* iter_media_files(folder, IMG_EXTS)
iter_media_files(f, folder) ==
    {p \in rglob_files(f, folder) : LowerExt(p.ext) \in IMG_EXTS /\ ~hidden(p)}

\* image_bases = {p.stem for p in images}
image_bases_of(images) == {p.stem : p \in images}

\* a mask_bases that takes the stem of a mask without the suffix as it is
mask_bases_any_stem(masks) ==
    {IF endswith(m.stem, MASK_SUFFIX) THEN strip_suffix(m.stem) ELSE m.stem :
        m \in masks}

\* mask_bases: the stems that end with the suffix, without it
mask_bases_of(masks) ==
    {strip_suffix(m.stem) : m \in {x \in masks : endswith(x.stem, MASK_SUFFIX)}}

\* unpaired_images = [p for p in images if p.stem not in mask_bases]
unpaired_images_of(images, mask_bases) ==
    {p \in images : p.stem \notin mask_bases}

\* an unpaired_masks that pairs a mask by its stem when the suffix is missing
unpaired_masks_by_stem(masks, image_bases) ==
    {m \in masks :
        IF endswith(m.stem, MASK_SUFFIX)
        THEN strip_suffix(m.stem) \notin image_bases
        ELSE m.stem \notin image_bases}

\* unpaired_masks: no suffix, or a base that no image has
unpaired_masks_of(masks, image_bases) ==
    {m \in masks :
        \/ ~endswith(m.stem, MASK_SUFFIX)
        \/ strip_suffix(m.stem) \notin image_bases}

PruneArgs ==
    {[NoStageArgs EXCEPT !.dry_run = d, !.img_dir = TRUE, !.mask_dir = TRUE] :
        d \in BOOLEAN}

\* the merged datasets the prune pass is run on
PruneUniverse ==
    {File(ImgDir, <<"a">>, ".jpg"),
     File(ImgDir, <<"a">>, ".png"),
     File(ImgDir \o <<Sub>>, <<"b">>, ".PNG"),
     File(ImgDir, <<"a", "_mask">>, ".png"),
     File(ImgDir, <<".", "c">>, ".png"),
     File(ImgDir, <<"c">>, ".txt"),
     File(MaskDir, <<"a", "_mask">>, ".png"),
     File(MaskDir \o <<Sub>>, <<"a", "_mask">>, ".jpg"),
     File(MaskDir, <<"b", "_mask">>, ".png"),
     File(MaskDir, <<"a">>, ".png"),
     File(MaskDir, <<"c", "_mask">>, ".png"),
     File(MaskDir, <<"a", "_mask", "_mask">>, ".png")}

InitPrune ==
    /\ PureIdle
    /\ stage = "prune"
    /\ args \in PruneArgs
    /\ TreeInit(PruneUniverse, SUBSET {ImgDir, MaskDir})
    /\ ext_order = ExtOrderAtoZ
    /\ ran = <<>>
    /\ StageFresh

\* main, to the end of the check report and the dry-run return
PruneStart ==
    /\ stage = "prune"
    /\ pc = "start"
    /\ IF ImgDir \notin dirs \/ MaskDir \notin dirs
       THEN /\ pc' = "aborted"
            /\ diag' = diag \cup {[kind |-> "invalid_directories", path |-> NoPath]}
            /\ UNCHANGED <<report, listed, todo, later>>
       ELSE LET images == iter_media_files(fs, ImgDir)
                masks == iter_media_files(fs, MaskDir)
                image_bases == image_bases_of(images)
                mask_bases == mask_bases_of(masks)
                unpaired_images == unpaired_images_of(images, mask_bases)
                unpaired_masks == unpaired_masks_of(masks, image_bases)
            IN  /\ report' = [unpaired_images |-> unpaired_images,
                              unpaired_masks |-> unpaired_masks,
                              n_unpaired_images |-> Cardinality(unpaired_images),
                              n_unpaired_masks |-> Cardinality(unpaired_masks)]
                /\ IF args.dry_run
                   THEN /\ pc' = "done"
                        /\ diag' = diag \cup {[kind |-> "dry_run", path |-> NoPath]}
                        /\ UNCHANGED <<listed, todo, later>>
                   ELSE /\ pc' = "delete"
                        /\ listed' = unpaired_images \cup unpaired_masks
                        /\ todo' = unpaired_images
                        /\ later' = unpaired_masks
                        /\ UNCHANGED diag
    /\ UNCHANGED <<stage, args, fs, dirs, fs0, dirs0, faulty, ext_order, queue,
                   cur, handled, touched, failed, counts, resolved, ran>>
    /\ UNCHANGED pureVars

\* one turn of `for p in unpaired_images + unpaired_masks`
PruneDelete ==
    /\ stage = "prune"
    /\ pc = "delete"
    /\ \E p \in (IF todo # {} THEN todo ELSE later) :
          /\ todo' = todo \ {p}
          /\ later' = IF todo # {} THEN later ELSE later \ {p}
          /\ handled' = handled \cup {p}
          /\ touched' = touched \cup {p}
          /\ IF p \in faulty \/ p \notin DOMAIN fs
             THEN /\ diag' = diag \cup {[kind |-> "could_not_delete", path |-> p]}
                  /\ failed' = failed \cup {p}
                  /\ UNCHANGED <<fs, counts>>
             ELSE /\ fs' = Unlinked(fs, p)
                  /\ counts' = [counts EXCEPT !.deleted = @ + 1]
                  /\ UNCHANGED <<diag, failed>>
    /\ UNCHANGED <<stage, args, dirs, fs0, dirs0, faulty, ext_order, pc, queue,
                   cur, listed, report, resolved, ran>>
    /\ UNCHANGED pureVars

\* the end of the delete loop and the summary
PruneFinish ==
    /\ stage = "prune"
    /\ pc = "delete"
    /\ todo = {}
    /\ later = {}
    /\ pc' = "done"
    /\ UNCHANGED <<stage, args, fs, dirs, fs0, dirs0, faulty, ext_order, queue,
                   cur, todo, later, listed, handled, touched, failed, diag, counts,
                   report, resolved, ran>>
    /\ UNCHANGED pureVars

NextPrune == PruneStart \/ PruneDelete \/ PruneFinish

SpecPrune == InitPrune /\ [][NextPrune]_vars

\* a prune pass that was asked to delete has ended
PruneRan == stage = "prune" /\ pc = "done" /\ ~args.dry_run
\* the prune pass printed its check report
PruneReported == stage = "prune" /\ pc \in {"delete", "done"}
\* no unlink of the run failed
EveryDeleteSucceeded == ~\E d \in diag : d.kind = "could_not_delete"

HasSuffix(m) == endswith(m.stem, MASK_SUFFIX)
\* I and M of a file tree: the image basenames and the mask root-basenames
BasenamesI(f) == {p.stem : p \in iter_media_files(f, ImgDir)}
RootsM(f) ==
    {strip_suffix(m.stem) : m \in {x \in iter_media_files(f, MaskDir) : HasSuffix(x)}}

\* C3: after a prune pass that deleted every file it tried to, the image
\* basenames left and the mask root-basenames left both equal I \cap M of
\* the tree it started on, and the two reported counts are the numbers of
\* images and of masks removed.
C3_PruneLeavesIntersection ==
    (PruneRan /\ EveryDeleteSucceeded) =>
        LET I == BasenamesI(fs0)
            M == RootsM(fs0)
            images0 == iter_media_files(fs0, ImgDir)
            masks0 == iter_media_files(fs0, MaskDir)
            images1 == iter_media_files(fs, ImgDir)
            masks1 == iter_media_files(fs, MaskDir)
        IN  /\ {p.stem : p \in images1} = I \cap M
            /\ \A m \in masks1 : HasSuffix(m)
            /\ {strip_suffix(m.stem) : m \in masks1} = I \cap M
            /\ report.n_unpaired_images = Cardinality(images0 \ images1)
            /\ report.n_unpaired_masks = Cardinality(masks0 \ masks1)

\* the scenario of C3: images a and b, the mask of a only; the pass removed
\* image b and reported 1 unpaired image and 0 unpaired masks
C3_Witness ==
    /\ PruneRan
    /\ EveryDeleteSucceeded
    /\ DOMAIN fs0 = {File(ImgDir, <<"a">>, ".jpg"),
                     File(ImgDir \o <<Sub>>, <<"b">>, ".PNG"),
                     File(MaskDir, <<"a", "_mask">>, ".png")}
    /\ DOMAIN fs = {File(ImgDir, <<"a">>, ".jpg"),
                    File(MaskDir, <<"a", "_mask">>, ".png")}
    /\ report.n_unpaired_images = 1
    /\ report.n_unpaired_masks = 0

\* C4: a mask whose stem does not end with _mask is listed as unpaired (and
\* is among the files to delete), whatever the images are, and an image
\* counts as paired only by a mask that carries the suffix.
C4_SuffixlessMaskIsUnpaired ==
    PruneReported =>
        LET images0 == iter_media_files(fs0, ImgDir)
            masks0 == iter_media_files(fs0, MaskDir)
        IN  /\ \A m \in masks0 :
                  ~HasSuffix(m) =>
                      /\ m \in report.unpaired_masks
                      /\ ~args.dry_run => m \in listed
            /\ \A p \in images0 :
                  p \notin report.unpaired_images =>
                      \E m \in masks0 :
                          HasSuffix(m) /\ strip_suffix(m.stem) = p.stem

\* a mask named like an image (a.png beside the image a.jpg) was classified:
\* the mask is unpaired and so is the image
C4_Witness ==
    /\ PruneReported
    /\ File(ImgDir, <<"a">>, ".jpg") \in DOMAIN fs0
    /\ File(MaskDir, <<"a">>, ".png") \in DOMAIN fs0
    /\ File(MaskDir, <<"a">>, ".png") \in report.unpaired_masks
    /\ File(ImgDir, <<"a">>, ".jpg") \in report.unpaired_images

-----------------------------------------------------------------------------
(* gather_images_and_masks.py                                               *)

Root == << <<"root">> >>
DataC1 == Root \o << <<"data_", "C", "1">> >>
DataC2 == Root \o << <<"data_", "c", "2">> >>
Other == Root \o << <<"other">> >>
ImagesC1 == DataC1 \o << <<"images_", "C", "1">> >>
ImagesX == DataC1 \o << <<"Images_", "x">> >>
MasksC1 == DataC1 \o << <<"masks_", "C", "1">> >>

\* the iteration orders of IMG_EXTS the model lets a process have: they
\* differ in which of .jpg and .png comes first
ExtOrders == {ExtOrderAtoZ, <<".tiff", ".tif", ".png", ".jpg", ".jpeg", ".bmp">>}

\* the directories directly under d
subdirs(ds, d) == {x \in ds : Len(x) = Len(d) + 1 /\ IsPrefix(d, x)}
dirname(d) == d[Len(d)]

\* sorted(p for p in root.iterdir() if p.is_dir() and
\*        p.name.lower().startswith("data_c"))
SplitOrder == <<DataC1, DataC2, Other>>
splits_of(ds) ==
    LET IsSplit(d) ==
            /\ d \in subdirs(ds, Root)
            /\ startswith(lower(dirname(d)), <<"data_", "c">>)
    IN  SelectSeq(SplitOrder, IsSplit)

\* data_dir.name.split("data_")[-1]
split_tag_of(name) ==
    LET at == {i \in 1..Len(name) : name[i] = "data_"}
    IN  IF at = {} THEN name
        ELSE SubSeq(name, (CHOOSE i \in at : \A j \in at : j <= i) + 1, Len(name))

\* find_dir_exact_or_prefix: the directories it may return (none: None)
find_dir_exact_or_prefix(ds, base, exact, prefix) ==
    IF base \o <<exact>> \in ds THEN {base \o <<exact>>}
    ELSE {x \in subdirs(ds, base) : startswith(lower(dirname(x)), lower(prefix))}

\* choose_mask_for under an iteration order of IMG_EXTS; NoPath is None
choose_mask_for(f, order, basename, mask_dir) ==
    LET cand(ext) == File(mask_dir, basename \o MASK_SUFFIX, ext)
        strict == {i \in 1..Len(order) : cand(order[i]) \in DOMAIN f}
        candidates ==
            {p \in iterdir_files(f, mask_dir) :
                /\ LowerExt(p.ext) \in IMG_EXTS_gather
                /\ startswith(lower(p.stem), lower(basename))
                /\ contains(lower(p.stem), MASK_SUFFIX)}
    IN  IF strict # {}
        THEN cand(order[CHOOSE i \in strict : \A j \in strict : i <= j])
        ELSE IF Cardinality(candidates) = 1
             THEN CHOOSE p \in candidates : TRUE
             ELSE NoPath

\* copy_file on the tree (f, ds): the tree after it and whether copy2 raised.
\* link_ok: whether the hard link, when asked for, could be made; a link
\* that fails has removed dst before shutil.copy2 is tried
copy_file(f, ds, bad, src, dst, dry_run, hardlink, link_ok) ==
    LET ds1 == ds \cup WithParents(dst.parent)
        f1 == IF hardlink /\ dst \in DOMAIN f THEN Unlinked(f, dst) ELSE f
    IN  IF dry_run
        THEN [fs |-> f, dirs |-> ds1, raised |-> FALSE, io |-> {}]
        ELSE IF hardlink /\ link_ok
        THEN [fs |-> Written(f1, dst, f[src]), dirs |-> ds1, raised |-> FALSE,
              io |-> {src, dst}]
        ELSE IF src \in bad
        THEN [fs |-> f1, dirs |-> ds1, raised |-> TRUE, io |-> {src}]
        ELSE [fs |-> Written(f1, dst, f[src]), dirs |-> ds1, raised |-> FALSE,
              io |-> {src, dst}]

\* --dry-run, --hardlink (a dry run never reaches the hardlink switch)
MergeArgs ==
    {[NoStageArgs EXCEPT !.dry_run = d, !.hardlink = h] :
        d, h \in BOOLEAN} \ {[NoStageArgs EXCEPT !.dry_run = TRUE, !.hardlink = TRUE]}

\* the layouts of --root: missing, without a split, with a split that lacks
\* its folders, with the split data_C1 complete or with the images folder
\* found by its prefix
MergeLayouts ==
    {{},
     {Root},
     {Root, Other},
     {DataC2},
     {ImagesC1},
     {ImagesC1, MasksC1},
     {ImagesC1, MasksC1, ImagesX},
     {ImagesX, MasksC1},
     {ImagesC1, MasksC1, DataC2, Other}}

\* the raw splits the merge is run on
MergeUniverse ==
    {File(ImagesC1, <<"a">>, ".jpg"),
     File(ImagesC1, <<"a">>, ".png"),
     File(ImagesC1 \o <<Sub>>, <<"a">>, ".jpg"),
     File(ImagesC1, <<"a", "b">>, ".png"),
     File(ImagesC1, <<"a">>, ".webp"),
     File(ImagesX, <<"b">>, ".jpg"),
     File(MasksC1, <<"a", "_mask">>, ".png"),
     File(MasksC1, <<"a", "_mask">>, ".jpg"),
     File(MasksC1, <<"a", "b", "_mask">>, ".png"),
     File(MasksC1, <<"A", "_mask">>, ".PNG"),
     File(MasksC1, <<"b", "_mask", "x">>, ".png")}

InitMerge ==
    /\ PureIdle
    /\ stage = "merge"
    /\ args \in MergeArgs
    /\ TreeInit(MergeUniverse, MergeLayouts)
    /\ ext_order \in ExtOrders
    /\ ran = <<>>
    /\ StageFresh

\* main, to the start of `for d in splits`
MergeStart ==
    /\ stage = "merge"
    /\ pc = "start"
    /\ IF Root \notin dirs
       THEN \* args.root.iterdir() raises
            /\ pc' = "crashed"
            /\ diag' = diag \cup {[kind |-> "no_root", path |-> NoPath]}
            /\ UNCHANGED queue
       ELSE IF splits_of(dirs) = <<>>
       THEN /\ pc' = "done"
            /\ diag' = diag \cup {[kind |-> "no_splits", path |-> NoPath]}
            /\ UNCHANGED queue
       ELSE /\ pc' = "split"
            /\ queue' = splits_of(dirs)
            /\ UNCHANGED diag
    /\ UNCHANGED <<stage, args, fs, dirs, fs0, dirs0, faulty, ext_order, cur,
                   todo, later, listed, handled, touched, failed, counts, report,
                   resolved, ran>>
    /\ UNCHANGED pureVars

\* process_split, to the start of `for img in images`
MergeSplit ==
    /\ stage = "merge"
    /\ pc = "split"
    /\ queue # <<>>
    /\ LET data_dir == Head(queue)
           split_tag == split_tag_of(dirname(data_dir))
           images_dirs == find_dir_exact_or_prefix(
               dirs, data_dir, <<"images_">> \o split_tag, <<"images_">>)
           masks_dirs == find_dir_exact_or_prefix(
               dirs, data_dir, <<"masks_">> \o split_tag, <<"masks_">>)
       IN  /\ queue' = Tail(queue)
           /\ IF images_dirs = {} \/ masks_dirs = {}
              THEN /\ diag' = diag \cup {[kind |-> "skipping_split", path |-> NoPath]}
                   /\ UNCHANGED <<pc, cur, todo, listed>>
              ELSE \E images_dir \in images_dirs, masks_dir \in masks_dirs :
                      LET images == {p \in rglob_files(fs, images_dir) :
                                        LowerExt(p.ext) \in IMG_EXTS_gather}
                          masks == {p \in rglob_files(fs, masks_dir) :
                                        LowerExt(p.ext) \in IMG_EXTS_gather}
                      IN  /\ cur' = [tag |-> split_tag, images_dir |-> images_dir,
                                     masks_dir |-> masks_dir, masks |-> masks,
                                     matched |-> {}]
                          /\ todo' = images
                          /\ listed' = listed \cup images
                          /\ pc' = "copy"
                          /\ UNCHANGED diag
    /\ UNCHANGED <<stage, args, fs, dirs, fs0, dirs0, faulty, ext_order, later,
                   handled, touched, failed, counts, report, resolved, ran>>
    /\ UNCHANGED pureVars

\* one turn of `for img in images`: the image is copied, its mask looked
\* for and copied; an exception of shutil.copy2 leaves main
MergeImage ==
    /\ stage = "merge"
    /\ pc = "copy"
    /\ \E img \in todo, link_img \in BOOLEAN, link_mask \in BOOLEAN :
          LET base == img.stem
              img_dst == File(ImgDir, cur.tag \o <<"_">> \o base, LowerExt(img.ext))
              c1 == copy_file(fs, dirs, faulty, img, img_dst, args.dry_run,
                              args.hardlink, link_img)
              mask_path == choose_mask_for(c1.fs, ext_order, base, cur.masks_dir)
              mask_dst == File(MaskDir, cur.tag \o <<"_">> \o base \o MASK_SUFFIX,
                               LowerExt(mask_path.ext))
              c2 == copy_file(c1.fs, c1.dirs, faulty, mask_path, mask_dst,
                              args.dry_run, args.hardlink, link_mask)
              dry(src) == IF args.dry_run
                          THEN {[kind |-> "dry", path |-> src]} ELSE {}
          IN  /\ args.hardlink \/ (~link_img /\ ~link_mask)
              /\ todo' = todo \ {img}
              /\ handled' = handled \cup {img}
              /\ IF c1.raised
                 THEN /\ pc' = "crashed"
                      /\ fs' = c1.fs
                      /\ dirs' = c1.dirs
                      /\ touched' = touched \cup c1.io
                      /\ failed' = failed \cup {img}
                      /\ ~link_mask
                      /\ UNCHANGED <<counts, diag, cur, resolved>>
                 ELSE IF mask_path = NoPath
                 THEN /\ fs' = c1.fs
                      /\ dirs' = c1.dirs
                      /\ touched' = touched \cup c1.io
                      /\ ~link_mask
                      /\ counts' = [counts EXCEPT !.copied_imgs = @ + 1]
                      /\ diag' = diag \cup dry(img) \cup
                            {[kind |-> "image_without_mask", path |-> img]}
                      /\ resolved' = Written(resolved, img,
                            [mask_dir |-> cur.masks_dir, mask |-> NoPath])
                      /\ UNCHANGED <<pc, cur, failed>>
                 ELSE /\ fs' = c2.fs
                      /\ dirs' = c2.dirs
                      /\ touched' = touched \cup c1.io \cup c2.io
                      /\ resolved' = Written(resolved, img,
                            [mask_dir |-> cur.masks_dir, mask |-> mask_path])
                      /\ IF c2.raised
                         THEN /\ pc' = "crashed"
                              /\ failed' = failed \cup {mask_path}
                              /\ counts' = [counts EXCEPT !.copied_imgs = @ + 1]
                              /\ UNCHANGED <<diag, cur>>
                         ELSE /\ counts' = [counts EXCEPT !.copied_imgs = @ + 1,
                                                          !.copied_masks = @ + 1]
                              /\ cur' = [cur EXCEPT !.matched =
                                            @ \cup {lower(mask_path.stem)}]
                              /\ diag' = diag \cup dry(img) \cup dry(mask_path)
                              /\ UNCHANGED <<pc, failed>>
    /\ UNCHANGED <<stage, args, fs0, dirs0, faulty, ext_order, queue, later,
                   listed, report, ran>>
    /\ UNCHANGED pureVars

\* the end of process_split: the masks no image claimed are listed
MergeSplitEnd ==
    /\ stage = "merge"
    /\ pc = "copy"
    /\ todo = {}
    /\ pc' = "split"
    /\ diag' = diag \cup
          {[kind |-> "extra_mask", path |-> m] :
              m \in {x \in cur.masks :
                        /\ contains(lower(x.stem), MASK_SUFFIX)
                        /\ lower(x.stem) \notin cur.matched}}
    /\ cur' = NoSplit
    /\ UNCHANGED <<stage, args, fs, dirs, fs0, dirs0, faulty, ext_order, queue,
                   todo, later, listed, handled, touched, failed, counts, report,
                   resolved, ran>>
    /\ UNCHANGED pureVars

\* the end of `for d in splits` and the summary
MergeFinish ==
    /\ stage = "merge"
    /\ pc = "split"
    /\ queue = <<>>
    /\ pc' = "done"
    /\ UNCHANGED <<stage, args, fs, dirs, fs0, dirs0, faulty, ext_order, queue,
                   cur, todo, later, listed, handled, touched, failed, diag, counts,
                   report, resolved, ran>>
    /\ UNCHANGED pureVars

\* the pipeline goes on: the prune pass is run on the output of a merge
PruneAfterMerge ==
    /\ stage = "merge"
    /\ pc = "done"
    /\ ~args.dry_run
    /\ stage' = "prune"
    /\ args' \in PruneArgs
    /\ ran' = Append(ran, "merge")
    /\ fs0' = fs
    /\ dirs0' = dirs
    /\ pc' = "start"
    /\ queue' = <<>>
    /\ cur' = NoSplit
    /\ todo' = {}
    /\ later' = {}
    /\ listed' = {}
    /\ handled' = {}
    /\ touched' = {}
    /\ failed' = {}
    /\ diag' = {}
    /\ counts' = NoCounts
    /\ report' = NoReport
    /\ resolved' = <<>>
    /\ UNCHANGED <<fs, dirs, faulty, ext_order>>
    /\ UNCHANGED pureVars

NextMerge ==
    \/ MergeStart \/ MergeSplit \/ MergeImage \/ MergeSplitEnd \/ MergeFinish
    \/ PruneAfterMerge
    \/ NextPrune

SpecMerge == InitMerge /\ [][NextMerge]_vars

-----------------------------------------------------------------------------
(* fix_masks_to_binary.py : main, process_mask_file                         *)

\* the bytes of a file after binarize_array was applied and saved
Binarized(content) == [content EXCEPT !.ops = Append(@, "binarize")]

\* p.with_suffix(".png"), and with_stem(stem + MASK_SUFFIX) when the stem
\* does not end with the suffix
png_mask_path(p) ==
    File(p.parent,
         IF endswith(p.stem, MASK_SUFFIX) THEN p.stem ELSE p.stem \o MASK_SUFFIX,
         ".png")

BinArgs ==
    {[NoStageArgs EXCEPT !.dry_run = d, !.out_png = o, !.mask_dir = TRUE] :
        d, o \in BOOLEAN}

\* the mask folders the binarizer is run on
BinUniverse ==
    {File(MaskDir, <<"a", "_mask">>, ".png"),
     File(MaskDir, <<"a", "_mask">>, ".jpg"),
     File(MaskDir, <<"a">>, ".jpg"),
     File(MaskDir, <<".", "c", "_mask">>, ".png"),
     File(MaskDir, <<"a">>, ".txt"),
     File(MaskDir \o <<Sub>>, <<"b", "_mask">>, ".PNG")}

InitBinStage ==
    /\ PureIdle
    /\ stage = "binarize"
    /\ args \in BinArgs
    /\ TreeInit(BinUniverse, {{}, {MaskDir}})
    /\ ext_order = ExtOrderAtoZ
    /\ ran = <<>>
    /\ StageFresh

\* main, to the start of `for p in files`
BinStart ==
    /\ stage = "binarize"
    /\ pc = "start"
    /\ IF MaskDir \notin dirs
       THEN /\ pc' = "aborted"
            /\ diag' = diag \cup {[kind |-> "not_a_directory", path |-> NoPath]}
            /\ UNCHANGED <<todo, listed>>
       ELSE LET files == {p \in rglob_files(fs, MaskDir) : LowerExt(p.ext) \in IMG_EXTS}
            IN  IF files = {}
                THEN /\ pc' = "done"
                     /\ diag' = diag \cup {[kind |-> "no_image_files", path |-> NoPath]}
                     /\ UNCHANGED <<todo, listed>>
                ELSE /\ pc' = "loop"
                     /\ todo' = files
                     /\ listed' = files
                     /\ UNCHANGED diag
    /\ UNCHANGED <<stage, args, fs, dirs, fs0, dirs0, faulty, ext_order, queue,
                   cur, later, handled, touched, failed, counts, report,
                   resolved, ran>>
    /\ UNCHANGED pureVars

\* one turn of `for p in files`: process_mask_file(p); an exception of
\* Image.open or convert leaves main.  unlink_ok: whether the unlink of the
\* original, whose failure is passed over, succeeds
BinFile ==
    /\ stage = "binarize"
    /\ pc = "loop"
    /\ \E p \in todo, unlink_ok \in BOOLEAN :
          LET dst == png_mask_path(p)
              saved == Written(fs, dst, Binarized(fs[p]))
          IN  /\ todo' = todo \ {p}
              /\ handled' = handled \cup {p}
              /\ IF p \in faulty \/ p \notin DOMAIN fs
                 THEN /\ pc' = "crashed"
                      /\ touched' = touched \cup {p}
                      /\ failed' = failed \cup {p}
                      /\ unlink_ok
                      /\ UNCHANGED <<fs, diag, counts>>
                 ELSE /\ diag' = diag \cup {[kind |-> "ok", path |-> p]}
                      /\ counts' = [counts EXCEPT !.count = @ + 1]
                      /\ IF args.dry_run
                         THEN /\ touched' = touched \cup {p}
                              /\ unlink_ok
                              /\ UNCHANGED <<fs, failed, pc>>
                         ELSE IF args.out_png
                         THEN /\ touched' = touched \cup {p, dst}
                              /\ IF dst = p
                                 THEN /\ fs' = saved
                                      /\ unlink_ok
                                      /\ UNCHANGED failed
                                 ELSE IF unlink_ok
                                 THEN /\ fs' = Unlinked(saved, p)
                                      /\ UNCHANGED failed
                                 ELSE /\ fs' = saved
                                      /\ failed' = failed \cup {p}
                              /\ UNCHANGED pc
                         ELSE /\ touched' = touched \cup {p}
                              /\ fs' = Written(fs, p, Binarized(fs[p]))
                              /\ unlink_ok
                              /\ UNCHANGED <<failed, pc>>
    /\ UNCHANGED <<stage, args, dirs, fs0, dirs0, faulty, ext_order, queue, cur,
                   later, listed, report, resolved, ran>>
    /\ UNCHANGED pureVars

\* the end of the loop
BinFinish ==
    /\ stage = "binarize"
    /\ pc = "loop"
    /\ todo = {}
    /\ pc' = "done"
    /\ UNCHANGED <<stage, args, fs, dirs, fs0, dirs0, faulty, ext_order, queue,
                   cur, todo, later, listed, handled, touched, failed, diag,
                   counts, report, resolved, ran>>
    /\ UNCHANGED pureVars

NextBinStage == BinStart \/ BinFile \/ BinFinish

-----------------------------------------------------------------------------
(* resize_dataset_256.py : main, process_dir                                *)

OutImg == Out \o << <<"img_r">> >>
OutMask == Out \o << <<"mask_r">> >>

\* is_image_file(p)
is_image_file(f, p) ==
    p \in DOMAIN f /\ LowerExt(p.ext) \in IMG_EXTS /\ ~hidden(p)

\* the bytes of a file after a resize was saved
Resized(content, keep_aspect) ==
    [content EXCEPT !.ops =
        Append(@, IF keep_aspect THEN "resize_keep_aspect" ELSE "resize_stretch")]

\* out_dir / src.relative_to(in_dir)
relocate(src, in_dir, out_dir) ==
    File(out_dir \o SubSeq(src.parent, Len(in_dir) + 1, Len(src.parent)),
         src.stem, src.ext)

ResizeArgs ==
    {[NoStageArgs EXCEPT !.dry_run = d, !.keep_aspect = k, !.img_dir = i,
                         !.mask_dir = m, !.out = o] :
        d, k, i, m, o \in BOOLEAN}

\* the datasets the resize is run on
ResizeUniverse ==
    {File(ImgDir, <<"a">>, ".jpg"),
     File(ImgDir \o <<Sub>>, <<"b">>, ".png"),
     File(ImgDir, <<".", "c">>, ".png"),
     File(MaskDir, <<"a", "_mask">>, ".jpg"),
     File(MaskDir, <<"a", "_mask">>, ".png")}

InitResizeStage ==
    /\ PureIdle
    /\ stage = "resize"
    /\ args \in ResizeArgs
    /\ TreeInit(ResizeUniverse, SUBSET {ImgDir, MaskDir})
    /\ ext_order = ExtOrderAtoZ
    /\ ran = <<>>
    /\ StageFresh

\* main, to `if args.img_dir`
ResizeStart ==
    /\ stage = "resize"
    /\ pc = "start"
    /\ IF ~args.img_dir /\ ~args.mask_dir
       THEN /\ pc' = "aborted"
            /\ diag' = diag \cup {[kind |-> "no_directory_given", path |-> NoPath]}
       ELSE /\ pc' = "images"
            /\ UNCHANGED diag
    /\ UNCHANGED <<stage, args, fs, dirs, fs0, dirs0, faulty, ext_order, queue,
                   cur, todo, later, listed, handled, touched, failed, counts,
                   report, resolved, ran>>
    /\ UNCHANGED pureVars

\* `if args.img_dir:` / `if args.mask_dir:` of main, to the start of
\* `for src in files` of process_dir
ResizeDir ==
    /\ stage = "resize"
    /\ pc \in {"images", "masks"}
    /\ LET is_mask == pc = "masks"
           given == IF is_mask THEN args.mask_dir ELSE args.img_dir
           in_dir == IF is_mask THEN MaskDir ELSE ImgDir
           out_dir == IF is_mask THEN OutMask ELSE OutImg
           after == IF is_mask THEN "done" ELSE "masks"
           files == {p \in rglob_files(fs, in_dir) : is_image_file(fs, p)}
       IN  IF ~given
           THEN /\ pc' = after
                /\ UNCHANGED <<dirs, todo, listed, diag>>
           ELSE /\ dirs' = IF args.out THEN dirs \cup WithParents(out_dir) ELSE dirs
                /\ IF in_dir \notin dirs
                   THEN /\ pc' = after
                        /\ UNCHANGED <<todo, listed, diag>>
                   ELSE IF files = {}
                   THEN /\ pc' = after
                        /\ diag' = diag \cup {[kind |-> "no_images_found", path |-> NoPath]}
                        /\ UNCHANGED <<todo, listed>>
                   ELSE /\ pc' = IF is_mask THEN "masks_loop" ELSE "images_loop"
                        /\ todo' = files
                        /\ listed' = listed \cup files
                        /\ UNCHANGED diag
    /\ UNCHANGED <<stage, args, fs, fs0, dirs0, faulty, ext_order, queue, cur,
                   later, handled, touched, failed, counts, report, resolved,
                   ran>>
    /\ UNCHANGED pureVars

\* one turn of `for src in files`, with its try/except
ResizeFile ==
    /\ stage = "resize"
    /\ pc \in {"images_loop", "masks_loop"}
    /\ \E src \in todo :
          LET is_mask == pc = "masks_loop"
              in_dir == IF is_mask THEN MaskDir ELSE ImgDir
              out_dir == IF is_mask THEN OutMask ELSE OutImg
              dst0 == IF args.out THEN relocate(src, in_dir, out_dir) ELSE src
              dst == IF is_mask THEN File(dst0.parent, dst0.stem, ".png") ELSE dst0
          IN  /\ todo' = todo \ {src}
              /\ handled' = handled \cup {src}
              /\ IF src \in faulty \/ src \notin DOMAIN fs
                 THEN /\ diag' = diag \cup {[kind |-> "skip", path |-> src]}
                      /\ counts' = [counts EXCEPT !.skipped = @ + 1]
                      /\ touched' = touched \cup {src}
                      /\ failed' = failed \cup {src}
                      /\ UNCHANGED <<fs, dirs>>
                 ELSE /\ dirs' = IF args.out THEN dirs \cup WithParents(dst0.parent)
                                 ELSE dirs
                      /\ counts' = [counts EXCEPT !.count = @ + 1]
                      /\ UNCHANGED failed
                      /\ IF args.dry_run
                         THEN /\ diag' = diag \cup {[kind |-> "dry", path |-> src]}
                              /\ touched' = touched \cup {src}
                              /\ UNCHANGED fs
                         ELSE /\ fs' = Written(fs, dst, Resized(fs[src], args.keep_aspect))
                              /\ touched' = touched \cup {src, dst}
                              /\ UNCHANGED diag
    /\ UNCHANGED <<stage, args, fs0, dirs0, faulty, ext_order, pc, queue, cur,
                   later, listed, report, resolved, ran>>
    /\ UNCHANGED pureVars

\* the end of process_dir and the counts main prints for it
ResizeDirEnd ==
    /\ stage = "resize"
    /\ pc \in {"images_loop", "masks_loop"}
    /\ todo = {}
    /\ pc' = IF pc = "images_loop" THEN "masks" ELSE "done"
    /\ UNCHANGED <<stage, args, fs, dirs, fs0, dirs0, faulty, ext_order, queue,
                   cur, todo, later, listed, handled, touched, failed, diag,
                   counts, report, resolved, ran>>
    /\ UNCHANGED pureVars

NextResizeStage == ResizeStart \/ ResizeDir \/ ResizeFile \/ ResizeDirEnd

-----------------------------------------------------------------------------
(* One run of any of the four stages.                                       *)

InitStages == InitMerge \/ InitPrune \/ InitBinStage \/ InitResizeStage

NextStages == NextMerge \/ NextBinStage \/ NextResizeStage

SpecStages == InitStages /\ [][NextStages]_vars


\* the root-basename of a mask: its stem without the suffix
RootOf(m) == IF HasSuffix(m) THEN strip_suffix(m.stem) ELSE m.stem

\* the merge ran, then the prune pass ran on its output and deleted all it
\* tried to
Reconciled ==
    /\ stage = "prune"
    /\ ran = <<"merge">>
    /\ pc = "done"
    /\ ~args.dry_run
    /\ EveryDeleteSucceeded

\* C5: after the merge pass and the prune pass, every basename has at most
\* one image file and at most one mask file in the merged dataset.
C5_OnePerBasename ==
    Reconciled =>
        LET images == iter_media_files(fs, ImgDir)
            masks == iter_media_files(fs, MaskDir)
        IN  /\ \A p, q \in images : p.stem = q.stem => p = q
            /\ \A m, n \in masks : RootOf(m) = RootOf(n) => m = n

\* the mask C10 names for the basename b in the masks folder of the tree f
ClaimedMask(f, b, mask_dir) ==
    LET exact == {p \in iterdir_files(f, mask_dir) :
                     /\ p.stem = b \o MASK_SUFFIX
                     /\ p.ext \in IMG_EXTS_gather}
        relaxed == {p \in iterdir_files(f, mask_dir) :
                       /\ LowerExt(p.ext) \in IMG_EXTS_gather
                       /\ startswith(lower(p.stem), lower(b))
                       /\ contains(lower(p.stem), MASK_SUFFIX)}
    IN  IF exact # {}
        THEN IF Cardinality(exact) = 1 THEN CHOOSE p \in exact : TRUE ELSE NoPath
        ELSE IF Cardinality(relaxed) = 1 THEN CHOOSE p \in relaxed : TRUE
        ELSE NoPath

\* C10: the mask the merge resolves for an image is the one file named
\* basename + _mask + extension, else the one file whose stem starts with
\* the basename and contains _mask; where several files qualify at the step
\* that decides, no mask is resolved: the image is listed without a mask
\* and nothing is copied for it.
C10_NoPickAmongCandidates ==
    stage = "merge" =>
        \A img \in DOMAIN resolved :
            /\ resolved[img].mask = ClaimedMask(fs0, img.stem, resolved[img].mask_dir)
            /\ resolved[img].mask = NoPath =>
                  [kind |-> "image_without_mask", path |-> img] \in diag

\* a required directory of the run is missing or invalid
ConfigError ==
    CASE stage = "merge" -> Root \notin dirs0 \/ splits_of(dirs0) = <<>>
      [] stage = "prune" -> ImgDir \notin dirs0 \/ MaskDir \notin dirs0
      [] stage = "binarize" -> MaskDir \notin dirs0
      [] stage = "resize" ->
            \/ ~args.img_dir /\ ~args.mask_dir
            \/ args.img_dir /\ ImgDir \notin dirs0
            \/ args.mask_dir /\ MaskDir \notin dirs0
      [] OTHER -> FALSE

StageOver == pc \in {"done", "aborted", "crashed"}

\* the files a real prune of the tree f would delete
CandidateImages(f) ==
    {p \in iter_media_files(f, ImgDir) : p.stem \notin RootsM(f)}
CandidateMasks(f) ==
    {m \in iter_media_files(f, MaskDir) :
        ~HasSuffix(m) \/ strip_suffix(m.stem) \notin BasenamesI(f)}

\* C6: a run with the dry-run flag leaves the files and the directories as
\* they were, whatever the stage; each file the run went through without
\* an error has its planned action reported, and the prune pass reports
\* the candidates a real run would delete.
C6_DryRunLeavesStorage ==
    args.dry_run =>
        /\ fs = fs0
        /\ dirs = dirs0
        /\ \A p \in handled \ failed : \E d \in diag : d.path = p
        /\ PruneReported =>
              /\ report.unpaired_images = CandidateImages(fs0)
              /\ report.unpaired_masks = CandidateMasks(fs0)

\* C7: a stage whose directories are valid ends normally, having entered
\* its loop body for every file of its lists, and every operation that
\* raised on a file is in the diagnostics.
C7_FailuresAreSkipped ==
    (StageOver /\ ~ConfigError) =>
        /\ pc = "done"
        /\ listed \subseteq handled
        /\ \A p \in failed : \E d \in diag : d.path = p

\* C9: when a required directory is missing or invalid, no file is read,
\* written, copied or deleted by the run and no loop body is entered.
C9_ConfigErrorTouchesNothing ==
    ConfigError =>
        /\ touched = {}
        /\ handled = {}
        /\ fs = fs0

\* the asset paths of the tree f under the directory d
PathsUnder(f, d) == {p \in DOMAIN f : IsPrefix(d, p.parent)}

\* the directories a Binarizer or Resampler run processes
ProcessedDirs ==
    CASE stage = "binarize" -> {MaskDir}
      [] stage = "resize" ->
            {d \in {ImgDir, MaskDir} :
                IF d = ImgDir THEN args.img_dir ELSE args.mask_dir}
      [] OTHER -> {}

\* C11: a file is unlinked only by the prune pass and only when it has no
\* counterpart; a binarize or resize run changes contents in place, so the
\* set of asset paths under each directory it processes is the same before
\* and after the run, with no file removed and none left beside another.
C11_OnlyPruneUnlinks ==
    /\ stage = "merge" => DOMAIN fs0 \subseteq DOMAIN fs
    /\ stage = "prune" =>
          DOMAIN fs0 \ DOMAIN fs \subseteq
              CandidateImages(fs0) \cup CandidateMasks(fs0)
    /\ \A d \in ProcessedDirs : PathsUnder(fs, d) = PathsUnder(fs0, d)

====
